---- MODULE Spec2Model ----
(***************************************************************************)
(* Film-rental REST API (src/server.js): every route handler is a chain of *)
(* db.query callbacks on one shared connection.  The state is the two      *)
(* tables the handlers write (customer, rental), the clock behind NOW(),   *)
(* and the position of every request in its callback chain.  The tables    *)
(* the handlers only read (film, actor, category, inventory, ...) are a    *)
(* fixed data set.                                                         *)
(***************************************************************************)
EXTENDS Integers, Sequences, FiniteSets, TLC

\* customer, rental: the tables, a row's primary key being its index.
\* now: the value of NOW().  req: per slot, the request and how far its
\* callback chain has got, then its response.
VARIABLES customer, rental, now, req

vars == <<customer, rental, now, req>>

(* ------------------------------ bounds -------------------------------- *)

\* Number of requests the server accepts in one behaviour.
MaxRequests == 2

\* Rows of the rental table the read-only queries are run against.
MaxInitRentals == 2

\* Rentals of one inventory item in the tables the top-rented-films report
\* is run against.
MaxRentalsPerItem == 2

\* Requests that may be in flight on the shared connection at once.
Slots == {1, 2}

Emails == {"a@x", "b@x"}
Names == {<<"a">>}

\* The inventory items that rentals are asked for and that the initial
\* rentals are of.
Requested == {1, 2, 3}

(* SQL NULL, and the falsy value of an absent JSON body field. *)
NULL == 0
Missing == ""
\* The empty string, which is what an absent text field or query-string
\* parameter is treated as.
Empty == <<>>

(* ------------------------- read-only tables --------------------------- *)

\* film.film_id
film == {1, 2, 3, 4, 5, 6, 7, 8}
\* film.title: films 1 and 7, and (in the collation) films 3 and 8, share one.
title ==
  <<<<"a", "b">>, <<"B", "a">>, <<"a">>, <<"b", "b">>,
    <<"b">>, <<"a", "a">>, <<"a", "b">>, <<"A">>>>
\* film.rental_rate (in cents), film.language_id
rental_rate == [f \in film |-> f * 100 - 1]
language_id == [f \in film |-> 1]
language == {1}
\* inventory.inventory_id -> inventory.film_id : film 1 has two copies,
\* films 2, 5, 6, 7 and 8 one, films 3 and 4 none.
inventory == <<1, 1, 2, 5, 6, 7, 8>>
\* inventory.store_id, and store.store_id
store_id == <<1, 2, 1, 1, 1, 1, 1>>
store == {1, 2}
actor == {1, 2, 3, 4}
\* actor.first_name, actor.last_name
actor_first_name == <<<<"A">>, <<"a">>, <<"b">>, <<"b">>>>
actor_last_name == <<<<"b">>, <<"a">>, <<"b">>, <<"a">>>>
\* film_actor rows <<film_id, actor_id>>: actor 3 only plays in film 3 (no
\* copy), actor 4 in no film, and film 4 has no actor.
film_actor == {<<1, 1>>, <<1, 2>>, <<2, 2>>, <<3, 3>>}
category == {1, 2}
\* category.name
category_name == <<<<"A", "b">>, <<"b", "a">>>>
\* film_category rows <<film_id, category_id>>: films 2 and 4 have none.
film_category == {<<1, 1>>, <<1, 2>>, <<3, 1>>}

(* ------------------------------ helpers ------------------------------- *)

Ids(table) == DOMAIN table

\* The rows a LEFT JOIN contributes for one left row: the matches, or one
\* all-NULL row when there is none.
OrNull(matches) == IF matches = {} THEN {NULL} ELSE matches

OpenRentals == {r \in Ids(rental) : rental[r].return_date = NULL}

RentalsOfInventory(i) == {r \in Ids(rental) : rental[r].inventory_id = i}

InventoryOfFilm(f) == {i \in Ids(inventory) : inventory[i] = f}

(* -------------------------------- text -------------------------------- *)

\* A string is the sequence of its characters.  The columns use the schema's
\* case-insensitive collation, which compares characters by their folded form.
Lower(c) == CASE c = "A" -> "a" [] c = "B" -> "b" [] OTHER -> c

Fold(text) == [k \in DOMAIN text |-> Lower(text[k])]

RECURSIVE Like(_, _)
\* text LIKE pattern: in the pattern "%" stands for any run of characters and
\* "_" for any one character; every other character stands for itself.
Like(text, pattern) ==
  IF pattern = <<>> THEN text = <<>>
  ELSE IF Head(pattern) = "%"
    THEN Like(text, Tail(pattern)) \/ (text # <<>> /\ Like(Tail(text), pattern))
  ELSE IF text = <<>> THEN FALSE
  ELSE /\ Head(pattern) = "_" \/ Lower(Head(pattern)) = Lower(Head(text))
       /\ Like(Tail(text), Tail(pattern))

\* The template literal `%${query}%`.
SearchParam(query) == <<"%">> \o query \o <<"%">>

\* CONCAT(first_name, ' ', last_name)
Concat(first_name, last_name) == first_name \o <<" ">> \o last_name

\* The collation's order of the letters.
CharRank(c) == IF Lower(c) = "a" THEN 1 ELSE IF Lower(c) = "b" THEN 2 ELSE 3

RECURSIVE TextLeq(_, _)
\* x <= y in the collation's order (ORDER BY on a text column).
TextLeq(x, y) ==
  IF x = <<>> THEN TRUE
  ELSE IF y = <<>> THEN FALSE
  ELSE \/ CharRank(Head(x)) < CharRank(Head(y))
       \/ CharRank(Head(x)) = CharRank(Head(y)) /\ TextLeq(Tail(x), Tail(y))

(* ------------------------------ requests ------------------------------ *)

NoArg ==
  [id |-> 0, customer_id |-> 0, inventory_id |-> 0, staff_id |-> 0,
   first_name |-> Empty, last_name |-> Empty, email |-> Missing,
   query |-> Empty, type |-> Missing, page |-> Empty, limit |-> Empty, search |-> Empty]

Idle ==
  [kind |-> "idle", arg |-> NoArg, pc |-> "idle", status |-> 0,
   out |-> [none |-> TRUE], tmp |-> [none |-> TRUE], queries |-> 0, writes |-> 0,
   errors |-> 0, responses |-> 0]

\* A new request of the given kind whose handler has issued its first query.
Issued(kind, arg, pc) ==
  [Idle EXCEPT !.kind = kind, !.arg = arg, !.pc = pc, !.queries = 1]

\* The callback was called with err set: the query it waited for failed.
Err(r) == [r EXCEPT !.errors = r.errors + 1]

\* res.status(status).json(body)
Respond(r, status, body) ==
  [r EXCEPT !.pc = "done", !.status = status, !.out = body,
            !.responses = r.responses + 1]

\* The callback issues the next db.query of the chain.
Query(r, pc) == [r EXCEPT !.pc = pc, !.queries = r.queries + 1]

Free(s) == req[s].pc \in {"idle", "done"}

\* The synchronous part of a handler: the request takes a free slot (its
\* response object), and time has passed since the previous request arrived.
Accept(s, r) ==
  /\ Free(s)
  /\ now <= MaxRequests
  /\ now' = now + 1
  /\ req' = [req EXCEPT ![s] = r]
  /\ UNCHANGED <<customer, rental>>

At(s, kind, pc) == req[s].kind = kind /\ req[s].pc = pc

(* ------------------------- POST /api/rentals -------------------------- *)

\* checkQuery without its "AND r.rental_id IS NULL".
createRental_checkQuery_anyRow(inventory_id) ==
  LET joined == UNION {{<<i, r>> : r \in OrNull(RentalsOfInventory(i) \cap OpenRentals)}
                       : i \in Ids(inventory)}
  IN  {row \in joined : row[1] = inventory_id}

\* checkQuery joining the returned rentals ("r.return_date IS NOT NULL").
createRental_checkQuery_returned(inventory_id) ==
  LET joined == UNION {{<<i, r>> : r \in OrNull(RentalsOfInventory(i) \ OpenRentals)}
                       : i \in Ids(inventory)}
  IN  {row \in joined : row[1] = inventory_id /\ row[2] = NULL}

\* checkQuery: the inventory rows with the given id that have no open rental.
createRental_checkQuery(inventory_id) ==
  LET joined == UNION {{<<i, r>> : r \in OrNull(RentalsOfInventory(i) \cap OpenRentals)}
                       : i \in Ids(inventory)}
  IN  {row \in joined : row[1] = inventory_id /\ row[2] = NULL}

\* rentalQuery made conditional: INSERT ... SELECT ... WHERE NOT EXISTS (an
\* open rental of the item).
rentalQuery_ifAvailable(inventory_id, customer_id) ==
  IF RentalsOfInventory(inventory_id) \cap OpenRentals # {}
  THEN rental
  ELSE Append(rental, [inventory_id |-> inventory_id, customer_id |-> customer_id,
                       return_date |-> NULL])

\* rentalQuery: INSERT INTO rental (..., return_date) VALUES (NOW(), ?, ?, ?, NULL)
rentalQuery(inventory_id, customer_id) ==
  Append(rental, [inventory_id |-> inventory_id, customer_id |-> customer_id,
                  return_date |-> NULL])

\* The body's fields are absent (falsy) or present; a present customer_id is
\* that of a customer row, a present inventory_id may name no inventory row.
PostRentals(s) ==
  \E customer_id \in Ids(customer) \cup {0},
     inventory_id \in Requested \cup {0, Len(inventory) + 1},
     staff_id \in {0, 1} :
    LET arg == [NoArg EXCEPT !.customer_id = customer_id,
                             !.inventory_id = inventory_id, !.staff_id = staff_id]
    IN  IF customer_id = 0 \/ inventory_id = 0 \/ staff_id = 0
        THEN Accept(s, Respond([Idle EXCEPT !.kind = "createRental", !.arg = arg], 400,
                  [error |-> "customer_id, inventory_id, and staff_id are required"]))
        ELSE Accept(s, Issued("createRental", arg, "checkQuery"))

\* The callback of checkQuery without the "return" of its 400 branch: it
\* goes on to the INSERT whatever the check found.
PostRentals_checkQuery_noReturn(s) ==
  /\ At(s, "createRental", "checkQuery")
  /\ \E err \in BOOLEAN :
       req' = [req EXCEPT ![s] =
         IF err THEN Respond(Err(@), 500, [error |-> "Failed to check inventory availability"])
         ELSE Query(@, "rentalQuery")]
  /\ UNCHANGED <<customer, rental, now>>

PostRentals_checkQuery(s) ==
  /\ At(s, "createRental", "checkQuery")
  /\ \E err \in BOOLEAN :
       LET results == createRental_checkQuery(req[s].arg.inventory_id)
       IN  req' = [req EXCEPT ![s] =
             IF err THEN Respond(Err(@), 500, [error |-> "Failed to check inventory availability"])
             ELSE IF Cardinality(results) = 0
               THEN Respond(@, 400, [error |-> "Inventory item is not available for rental"])
             ELSE Query(@, "rentalQuery")]
  /\ UNCHANGED <<customer, rental, now>>

PostRentals_rentalQuery(s) ==
  /\ At(s, "createRental", "rentalQuery")
  /\ \E err \in BOOLEAN :
       IF err
       THEN /\ req' = [req EXCEPT ![s] = Respond(Err(@), 500, [error |-> "Failed to create rental"])]
            /\ UNCHANGED rental
       ELSE /\ rental' = rentalQuery(req[s].arg.inventory_id, req[s].arg.customer_id)
            /\ req' = [req EXCEPT ![s] =
                 Respond([@ EXCEPT !.writes = @ + 1], 200,
                         [success |-> TRUE, rental_id |-> Len(rental'),
                          message |-> "Film rented successfully"])]
  /\ UNCHANGED <<customer, now>>

(* ------------------- PUT /api/rentals/:rentalId/return ---------------- *)

\* checkQuery: the rental joined to its inventory item, film and customer.
returnRental_checkQuery(rentalId) ==
  {r \in Ids(rental) :
     /\ rental[r].inventory_id \in Ids(inventory)
     /\ inventory[rental[r].inventory_id] \in film
     /\ rental[r].customer_id \in Ids(customer)
     /\ r = rentalId}

\* updateQuery: UPDATE rental SET return_date = NOW() WHERE rental_id = ?
returnRental_updateQuery(rentalId) ==
  [r \in Ids(rental) |->
     IF r = rentalId THEN [rental[r] EXCEPT !.return_date = now] ELSE rental[r]]

\* The test inverted: rental.return_date === null
alreadyReturned_inverted(row) == row.return_date = NULL

\* rental.return_date !== null
alreadyReturned(row) == row.return_date # NULL

PutReturn(s) ==
  \E rentalId \in 1 .. Len(rental) + 1 :
    Accept(s, Issued("returnRental", [NoArg EXCEPT !.id = rentalId], "checkQuery"))

\* The callback of checkQuery with an "if (err)" that logs the error and does
\* not return: the UPDATE is sent all the same.
PutReturn_checkQuery_errLogged(s) ==
  /\ At(s, "returnRental", "checkQuery")
  /\ \E err \in BOOLEAN :
       LET results == returnRental_checkQuery(req[s].arg.id)
       IN  req' = [req EXCEPT ![s] =
             IF err THEN Query(Err(@), "updateQuery")
             ELSE IF Cardinality(results) = 0
               THEN Respond(@, 404, [error |-> "Rental not found"])
             ELSE IF alreadyReturned(rental[CHOOSE r \in results : TRUE])
               THEN Respond(@, 400, [error |-> "Rental has already been returned"])
             ELSE Query(@, "updateQuery")]
  /\ UNCHANGED <<customer, rental, now>>

PutReturn_checkQuery(s) ==
  /\ At(s, "returnRental", "checkQuery")
  /\ \E err \in BOOLEAN :
       LET results == returnRental_checkQuery(req[s].arg.id)
       IN  req' = [req EXCEPT ![s] =
             IF err THEN Respond(Err(@), 500, [error |-> "Failed to check rental"])
             ELSE IF Cardinality(results) = 0
               THEN Respond(@, 404, [error |-> "Rental not found"])
             ELSE IF alreadyReturned(rental[CHOOSE r \in results : TRUE])
               THEN Respond(@, 400, [error |-> "Rental has already been returned"])
             ELSE Query(@, "updateQuery")]
  /\ UNCHANGED <<customer, rental, now>>

PutReturn_updateQuery(s) ==
  /\ At(s, "returnRental", "updateQuery")
  /\ \E err \in BOOLEAN :
       IF err
       THEN /\ req' = [req EXCEPT ![s] = Respond(Err(@), 500, [error |-> "Failed to return rental"])]
            /\ UNCHANGED rental
       ELSE /\ rental' = returnRental_updateQuery(req[s].arg.id)
            /\ req' = [req EXCEPT ![s] =
                 Respond([@ EXCEPT !.writes = @ + 1], 200,
                         [success |-> TRUE, message |-> "Rental returned successfully",
                          rental_id |-> req[s].arg.id])]
  /\ UNCHANGED <<customer, now>>

(* ------------------------- POST /api/customers ------------------------ *)

\* checkEmailQuery looking only at soft-deleted customers.
createCustomer_checkEmailQuery_inactive(email) ==
  {c \in Ids(customer) : customer[c].email = email /\ customer[c].active = 0}

\* checkEmailQuery: SELECT customer_id FROM customer WHERE email = ?
createCustomer_checkEmailQuery(email) ==
  {c \in Ids(customer) : customer[c].email = email}

\* insertQuery: INSERT INTO customer (..., active, ...) VALUES (..., 1, ...)
insertQuery(first_name, last_name, email) ==
  Append(customer, [first_name |-> first_name, last_name |-> last_name,
                    email |-> email, active |-> 1])

PostCustomers(s) ==
  \E first_name \in Names \cup {Empty}, last_name \in Names \cup {Empty},
     email \in Emails \cup {Missing} :
    LET arg == [NoArg EXCEPT !.first_name = first_name, !.last_name = last_name,
                             !.email = email]
    IN  IF first_name = Empty \/ last_name = Empty \/ email = Missing
        THEN Accept(s, Respond([Idle EXCEPT !.kind = "createCustomer", !.arg = arg], 400,
                  [error |-> "First name, last name, and email are required"]))
        ELSE Accept(s, Issued("createCustomer", arg, "checkEmailQuery"))

PostCustomers_checkEmailQuery(s) ==
  /\ At(s, "createCustomer", "checkEmailQuery")
  /\ \E err \in BOOLEAN :
       LET results == createCustomer_checkEmailQuery(req[s].arg.email)
       IN  req' = [req EXCEPT ![s] =
             IF err THEN Respond(Err(@), 500, [error |-> "Failed to check email"])
             ELSE IF Cardinality(results) > 0
               THEN Respond(@, 400, [error |-> "Email already exists"])
             ELSE Query(@, "insertQuery")]
  /\ UNCHANGED <<customer, rental, now>>

PostCustomers_insertQuery(s) ==
  /\ At(s, "createCustomer", "insertQuery")
  /\ \E err \in BOOLEAN :
       IF err
       THEN /\ req' = [req EXCEPT ![s] = Respond(Err(@), 500, [error |-> "Failed to create customer"])]
            /\ UNCHANGED customer
       ELSE /\ customer' = insertQuery(req[s].arg.first_name, req[s].arg.last_name,
                                       req[s].arg.email)
            /\ req' = [req EXCEPT ![s] =
                 Respond([@ EXCEPT !.writes = @ + 1], 200,
                         [success |-> TRUE, customer_id |-> Len(customer'),
                          message |-> "Customer created successfully"])]
  /\ UNCHANGED <<rental, now>>

(* ------------------------ PUT /api/customers/:id ---------------------- *)

\* checkCustomerQuery: SELECT customer_id FROM customer WHERE customer_id = ?
updateCustomer_checkCustomerQuery(customerId) ==
  {c \in Ids(customer) : c = customerId}

\* checkEmailQuery with "customer_id = ?" for "customer_id != ?".
updateCustomer_checkEmailQuery_self(email, customerId) ==
  {c \in Ids(customer) : customer[c].email = email /\ c = customerId}

\* checkEmailQuery: ... WHERE email = ? AND customer_id != ?
updateCustomer_checkEmailQuery(email, customerId) ==
  {c \in Ids(customer) : customer[c].email = email /\ c # customerId}

\* updateQuery: UPDATE customer SET first_name = ?, last_name = ?, email = ?, ...
updateCustomer_updateQuery(first_name, last_name, email, customerId) ==
  [c \in Ids(customer) |->
     IF c = customerId
     THEN [customer[c] EXCEPT !.first_name = first_name, !.last_name = last_name,
                              !.email = email]
     ELSE customer[c]]

\* The handler validating only "!first_name || !last_name".
PutCustomers_emailOptional(s) ==
  \E customerId \in 1 .. Len(customer) + 1,
     first_name \in Names \cup {Empty}, last_name \in Names \cup {Empty},
     email \in Emails \cup {Missing} :
    LET arg == [NoArg EXCEPT !.id = customerId, !.first_name = first_name,
                             !.last_name = last_name, !.email = email]
    IN  IF first_name = Empty \/ last_name = Empty
        THEN Accept(s, Respond([Idle EXCEPT !.kind = "updateCustomer", !.arg = arg], 400,
                  [error |-> "First name, last name, and email are required"]))
        ELSE Accept(s, Issued("updateCustomer", arg, "checkCustomerQuery"))

PutCustomers(s) ==
  \E customerId \in 1 .. Len(customer) + 1,
     first_name \in Names \cup {Empty}, last_name \in Names \cup {Empty},
     email \in Emails \cup {Missing} :
    LET arg == [NoArg EXCEPT !.id = customerId, !.first_name = first_name,
                             !.last_name = last_name, !.email = email]
    IN  IF first_name = Empty \/ last_name = Empty \/ email = Missing
        THEN Accept(s, Respond([Idle EXCEPT !.kind = "updateCustomer", !.arg = arg], 400,
                  [error |-> "First name, last name, and email are required"]))
        ELSE Accept(s, Issued("updateCustomer", arg, "checkCustomerQuery"))

PutCustomers_checkCustomerQuery(s) ==
  /\ At(s, "updateCustomer", "checkCustomerQuery")
  /\ \E err \in BOOLEAN :
       LET results == updateCustomer_checkCustomerQuery(req[s].arg.id)
       IN  req' = [req EXCEPT ![s] =
             IF err THEN Respond(Err(@), 500, [error |-> "Failed to check customer"])
             ELSE IF Cardinality(results) = 0
               THEN Respond(@, 404, [error |-> "Customer not found"])
             ELSE Query(@, "checkEmailQuery")]
  /\ UNCHANGED <<customer, rental, now>>

PutCustomers_checkEmailQuery(s) ==
  /\ At(s, "updateCustomer", "checkEmailQuery")
  /\ \E err \in BOOLEAN :
       LET emailResults == updateCustomer_checkEmailQuery(req[s].arg.email, req[s].arg.id)
       IN  req' = [req EXCEPT ![s] =
             IF err THEN Respond(Err(@), 500, [error |-> "Failed to check email"])
             ELSE IF Cardinality(emailResults) > 0
               THEN Respond(@, 400, [error |-> "Email already exists for another customer"])
             ELSE Query(@, "updateQuery")]
  /\ UNCHANGED <<customer, rental, now>>

PutCustomers_updateQuery(s) ==
  /\ At(s, "updateCustomer", "updateQuery")
  /\ \E err \in BOOLEAN :
       IF err
       THEN /\ req' = [req EXCEPT ![s] = Respond(Err(@), 500, [error |-> "Failed to update customer"])]
            /\ UNCHANGED customer
       ELSE /\ customer' = updateCustomer_updateQuery(req[s].arg.first_name,
                              req[s].arg.last_name, req[s].arg.email, req[s].arg.id)
            /\ req' = [req EXCEPT ![s] =
                 Respond([@ EXCEPT !.writes = @ + 1], 200,
                         [success |-> TRUE, message |-> "Customer updated successfully"])]
  /\ UNCHANGED <<rental, now>>

(* ---------------------- DELETE /api/customers/:id --------------------- *)

\* checkCustomerQuery: ... WHERE customer_id = ? AND active = 1
deleteCustomer_checkCustomerQuery(customerId) ==
  {c \in Ids(customer) : c = customerId /\ customer[c].active = 1}

\* checkRentalsQuery counting the returned rentals ("IS NOT NULL").
checkRentalsQuery_returned(customerId) ==
  Cardinality({r \in Ids(rental) :
                 rental[r].customer_id = customerId /\ rental[r].return_date # NULL})

\* checkRentalsQuery: SELECT COUNT(*) FROM rental r JOIN inventory i ...
\* WHERE r.customer_id = ? AND r.return_date IS NULL
checkRentalsQuery(customerId) ==
  Cardinality({row \in UNION {{<<r, i>> : i \in {j \in Ids(inventory) :
                                                 rental[r].inventory_id = j}}
                              : r \in Ids(rental)} :
                 rental[row[1]].customer_id = customerId
                 /\ rental[row[1]].return_date = NULL})

\* deleteQuery: UPDATE customer SET active = 0 WHERE customer_id = ?
deleteQuery(customerId) ==
  [c \in Ids(customer) |->
     IF c = customerId THEN [customer[c] EXCEPT !.active = 0] ELSE customer[c]]

DeleteCustomers(s) ==
  \E customerId \in 1 .. Len(customer) + 1 :
    Accept(s, Issued("deleteCustomer", [NoArg EXCEPT !.id = customerId],
                     "checkCustomerQuery"))

DeleteCustomers_checkCustomerQuery(s) ==
  /\ At(s, "deleteCustomer", "checkCustomerQuery")
  /\ \E err \in BOOLEAN :
       LET results == deleteCustomer_checkCustomerQuery(req[s].arg.id)
       IN  req' = [req EXCEPT ![s] =
             IF err THEN Respond(Err(@), 500, [error |-> "Failed to check customer"])
             ELSE IF Cardinality(results) = 0
               THEN Respond(@, 404, [error |-> "Customer not found or already deleted"])
             ELSE Query(@, "checkRentalsQuery")]
  /\ UNCHANGED <<customer, rental, now>>

DeleteCustomers_checkRentalsQuery(s) ==
  /\ At(s, "deleteCustomer", "checkRentalsQuery")
  /\ \E err \in BOOLEAN :
       LET activeRentals == checkRentalsQuery(req[s].arg.id)
       IN  req' = [req EXCEPT ![s] =
             IF err THEN Respond(Err(@), 500, [error |-> "Failed to check customer rentals"])
             ELSE IF activeRentals > 0
               THEN Respond(@, 400, [error |-> "Cannot delete customer",
                                     active_rentals |-> activeRentals])
             ELSE Query(@, "deleteQuery")]
  /\ UNCHANGED <<customer, rental, now>>

DeleteCustomers_deleteQuery(s) ==
  /\ At(s, "deleteCustomer", "deleteQuery")
  /\ \E err \in BOOLEAN :
       IF err
       THEN /\ req' = [req EXCEPT ![s] = Respond(Err(@), 500, [error |-> "Failed to delete customer"])]
            /\ UNCHANGED customer
       ELSE /\ customer' = deleteQuery(req[s].arg.id)
            /\ req' = [req EXCEPT ![s] =
                 Respond([@ EXCEPT !.writes = @ + 1], 200,
                         [success |-> TRUE, message |-> "Customer deleted successfully"])]
  /\ UNCHANGED <<rental, now>>

(* --------------------------- GET /api/film/:id ------------------------ *)

\* The film query with JOIN inventory for LEFT JOIN inventory.
filmQuery_rows_innerJoin(filmId) ==
  UNION {UNION {UNION {UNION {UNION {
    {[film_id |-> f, language_id |-> l, category_id |-> c, actor_id |-> a,
      inventory_id |-> i, rental_id |-> r] :
        r \in OrNull(RentalsOfInventory(i))}
      : i \in InventoryOfFilm(f)}
      : a \in OrNull({x \in actor : <<f, x>> \in film_actor})}
      : c \in OrNull({x \in category : <<f, x>> \in film_category})}
      : l \in OrNull({x \in language : language_id[f] = x})}
      : f \in {x \in film : x = filmId}}

\* The rows of the film query's FROM ... LEFT JOIN ... WHERE f.film_id = ?,
\* one per combination of category, actor, copy and rental of the film.
filmQuery_rows(filmId) ==
  UNION {UNION {UNION {UNION {UNION {
    {[film_id |-> f, language_id |-> l, category_id |-> c, actor_id |-> a,
      inventory_id |-> i, rental_id |-> r] :
        r \in OrNull(IF i = NULL THEN {} ELSE RentalsOfInventory(i))}
      : i \in OrNull(InventoryOfFilm(f))}
      : a \in OrNull({x \in actor : <<f, x>> \in film_actor})}
      : c \in OrNull({x \in category : <<f, x>> \in film_category})}
      : l \in OrNull({x \in language : language_id[f] = x})}
      : f \in {x \in film : x = filmId}}

\* COUNT(DISTINCT expr): the number of distinct non-NULL values expr takes
\* over the rows of a group.
CountDistinct(values) == Cardinality(values \ {NULL})

\* CASE WHEN r.return_date IS NULL THEN r.rental_id END; every column of the
\* all-NULL row of an unmatched LEFT JOIN is NULL.
OpenRentalId(row) ==
  IF row.rental_id = NULL THEN NULL
  ELSE IF rental[row.rental_id].return_date = NULL THEN row.rental_id ELSE NULL

\* The film query with COUNT(expr) for COUNT(DISTINCT expr): every joined
\* row with a non-NULL expr counts.
filmQuery_countRows(filmId) ==
  LET rows == filmQuery_rows(filmId)
  IN  {[film_id |-> f,
        categories |-> {row.category_id : row \in {x \in rows : x.film_id = f}} \ {NULL},
        actors |-> {row.actor_id : row \in {x \in rows : x.film_id = f}} \ {NULL},
        rental_count |-> Cardinality({x \in rows : x.film_id = f /\ x.rental_id # NULL}),
        total_copies |-> Cardinality({x \in rows : x.film_id = f /\ x.inventory_id # NULL}),
        currently_rented |->
          Cardinality({x \in rows : x.film_id = f /\ OpenRentalId(x) # NULL})]
       : f \in {row.film_id : row \in rows}}

\* The film query: GROUP BY the film's columns, one result row per film.
filmQuery(filmId) ==
  LET rows == filmQuery_rows(filmId)
  IN  {[film_id |-> f,
        categories |-> {row.category_id : row \in {x \in rows : x.film_id = f}} \ {NULL},
        actors |-> {row.actor_id : row \in {x \in rows : x.film_id = f}} \ {NULL},
        rental_count |-> CountDistinct({x.rental_id : x \in {y \in rows : y.film_id = f}}),
        total_copies |-> CountDistinct({x.inventory_id : x \in {y \in rows : y.film_id = f}}),
        currently_rented |->
          CountDistinct({OpenRentalId(x) : x \in {y \in rows : y.film_id = f}})]
       : f \in {row.film_id : row \in rows}}

GetFilm(s) ==
  \E filmId \in film \cup {Cardinality(film) + 1} :
    Accept(s, Issued("film", [NoArg EXCEPT !.id = filmId], "query"))

GetFilm_query(s) ==
  /\ At(s, "film", "query")
  /\ \E err \in BOOLEAN :
       LET results == filmQuery(req[s].arg.id)
       IN  req' = [req EXCEPT ![s] =
             IF err THEN Respond(Err(@), 500, [error |-> "Failed to fetch film details"])
             ELSE IF Cardinality(results) = 0
               THEN Respond(@, 404, [error |-> "Film not found"])
             ELSE Respond(@, 200, CHOOSE row \in results : TRUE)]
  /\ UNCHANGED <<customer, rental, now>>

(* -------------------------- GET /api/actor/:id ------------------------ *)

\* FROM actor a JOIN film_actor fa JOIN film f JOIN inventory i, then
\* LEFT JOIN rental (actorQuery) or JOIN rental (topFilmsQuery).
actorJoin_rows(actorId, leftJoinRental) ==
  UNION {UNION {UNION {
    {[actor_id |-> a, film_id |-> f, inventory_id |-> i, rental_id |-> r] :
        r \in IF leftJoinRental THEN OrNull(RentalsOfInventory(i))
                                ELSE RentalsOfInventory(i)}
      : i \in InventoryOfFilm(f)}
      : f \in {x \in film : <<x, a>> \in film_actor}}
      : a \in {x \in actor : x = actorId}}

\* actorQuery: ... JOIN inventory i ... LEFT JOIN rental r ... GROUP BY a.actor_id
actorQuery(actorId) ==
  LET rows == actorJoin_rows(actorId, TRUE)
  IN  {[actor_id |-> a,
        total_films |-> CountDistinct({x.film_id : x \in {y \in rows : y.actor_id = a}}),
        total_rentals |-> CountDistinct({x.rental_id : x \in {y \in rows : y.actor_id = a}})]
       : a \in {row.actor_id : row \in rows}}

\* LIMIT 5 of the top-films queries.
TopLimit == 5

RECURSIVE OrderDesc_asc(_, _)
\* ORDER BY count ASC
OrderDesc_asc(groups, count) ==
  IF groups = {} THEN {<<>>}
  ELSE UNION {{<<x>> \o q : q \in OrderDesc_asc(groups \ {x}, count)}
              : x \in {y \in groups : \A z \in groups : count[y] <= count[z]}}

RECURSIVE OrderDesc(_, _)
\* ORDER BY count DESC: the orders MySQL may return the groups in (ties in
\* any order); count maps each group to its count.
OrderDesc(groups, count) ==
  IF groups = {} THEN {<<>>}
  ELSE UNION {{<<x>> \o q : q \in OrderDesc(groups \ {x}, count)}
              : x \in {y \in groups : \A z \in groups : count[y] >= count[z]}}

\* LIMIT n
Limit(q, n) == SubSeq(q, 1, IF Len(q) < n THEN Len(q) ELSE n)

\* ORDER BY rental_count DESC LIMIT n
OrderByCountDesc(groups, n) ==
  {Limit(q, n) : q \in OrderDesc(groups, [g \in groups |-> g.rental_count])}

\* topFilmsQuery: ... JOIN rental r ... GROUP BY f.film_id ORDER BY ... LIMIT 5;
\* COUNT(r.rental_id) counts the joined rows with a rental.
topFilmsQuery(actorId) ==
  LET rows == actorJoin_rows(actorId, FALSE)
  IN  OrderByCountDesc(
        {[film_id |-> f,
          rental_count |-> Cardinality({x \in rows : x.film_id = f /\ x.rental_id # NULL})]
         : f \in {row.film_id : row \in rows}}, TopLimit)

GetActor(s) ==
  \E actorId \in actor \cup {Cardinality(actor) + 1} :
    Accept(s, Issued("actor", [NoArg EXCEPT !.id = actorId], "actorQuery"))

\* The callback of actorQuery with "if (length === 0)" not followed by an
\* else: after answering 404 it sends topFilmsQuery all the same.
GetActor_actorQuery_noElse(s) ==
  /\ At(s, "actor", "actorQuery")
  /\ \E err \in BOOLEAN :
       LET actorResults == actorQuery(req[s].arg.id)
       IN  req' = [req EXCEPT ![s] =
             IF err THEN Respond(Err(@), 500, [error |-> "Failed to fetch actor details"])
             ELSE IF Cardinality(actorResults) = 0
               THEN Query(Respond(@, 404, [error |-> "Actor not found"]), "topFilmsQuery")
             ELSE Query([@ EXCEPT !.tmp = CHOOSE row \in actorResults : TRUE],
                        "topFilmsQuery")]
  /\ UNCHANGED <<customer, rental, now>>

GetActor_actorQuery(s) ==
  /\ At(s, "actor", "actorQuery")
  /\ \E err \in BOOLEAN :
       LET actorResults == actorQuery(req[s].arg.id)
       IN  req' = [req EXCEPT ![s] =
             IF err THEN Respond(Err(@), 500, [error |-> "Failed to fetch actor details"])
             ELSE IF Cardinality(actorResults) = 0
               THEN Respond(@, 404, [error |-> "Actor not found"])
             ELSE Query([@ EXCEPT !.tmp = CHOOSE row \in actorResults : TRUE],
                        "topFilmsQuery")]
  /\ UNCHANGED <<customer, rental, now>>

GetActor_topFilmsQuery(s) ==
  /\ At(s, "actor", "topFilmsQuery")
  /\ \E err \in BOOLEAN :
       IF err
       THEN req' = [req EXCEPT ![s] = Respond(Err(@), 500, [error |-> "Failed to fetch actor films"])]
       ELSE \E filmsResults \in topFilmsQuery(req[s].arg.id) :
              req' = [req EXCEPT ![s] =
                Respond(@, 200, [actor |-> req[s].tmp, topFilms |-> filmsResults])]
  /\ UNCHANGED <<customer, rental, now>>

(* -------------------- GET /api/customers/:id/details ------------------ *)

\* FROM customer c LEFT JOIN rental r LEFT JOIN inventory i LEFT JOIN film f
\* WHERE c.customer_id = ?
detailsQuery_rows(customerId) ==
  UNION {UNION {UNION {
    {[customer_id |-> c, rental_id |-> r, inventory_id |-> i, film_id |-> f] :
        f \in OrNull(IF i = NULL THEN {} ELSE {x \in film : inventory[i] = x})}
      : i \in OrNull(IF r = NULL THEN {}
                     ELSE {x \in Ids(inventory) : rental[r].inventory_id = x})}
      : r \in OrNull({x \in Ids(rental) : rental[x].customer_id = c})}
      : c \in {x \in Ids(customer) : x = customerId}}

RECURSIVE SumRate(_)
\* SUM(f.rental_rate) over joined rows, NULL (here 0, as COALESCE makes it)
\* when no row has a film.
SumRate(rows) ==
  IF rows = {} THEN 0
  ELSE LET row == CHOOSE x \in rows : TRUE
       IN  (IF row.film_id = NULL THEN 0 ELSE rental_rate[row.film_id])
           + SumRate(rows \ {row})

\* The joined rows of the favorite_genre subquery, per category.
genreRows(customerId, c2) ==
  {<<f2, i2, r2>> \in film \X Ids(inventory) \X Ids(rental) :
     /\ <<f2, c2>> \in film_category
     /\ inventory[i2] = f2
     /\ rental[r2].inventory_id = i2
     /\ rental[r2].customer_id = customerId}

\* GROUP BY c2.name ORDER BY COUNT(*) DESC LIMIT 1: any category with the
\* most rows, NULL when the customer rented nothing with a category.
favoriteGenre(customerId) ==
  LET groups == {c2 \in category : genreRows(customerId, c2) # {}}
  IN  OrNull({c2 \in groups : \A d \in groups :
                Cardinality(genreRows(customerId, c2)) >= Cardinality(genreRows(customerId, d))})

detailsQuery(customerId, favorite_genre) ==
  LET rows == detailsQuery_rows(customerId)
  IN  {[customer_id |-> c,
        email |-> customer[c].email,
        active |-> customer[c].active,
        total_rentals |->
          CountDistinct({x.rental_id : x \in {y \in rows : y.customer_id = c}}),
        active_rentals |->
          CountDistinct({OpenRentalId(x) : x \in {y \in rows : y.customer_id = c}}),
        total_spent |-> SumRate({x \in rows : x.customer_id = c}),
        favorite_genre |-> favorite_genre]
       : c \in {row.customer_id : row \in rows}}

GetCustomerDetails(s) ==
  \E customerId \in 1 .. Len(customer) + 1 :
    Accept(s, Issued("customerDetails", [NoArg EXCEPT !.id = customerId], "query"))

GetCustomerDetails_query(s) ==
  /\ At(s, "customerDetails", "query")
  /\ \E err \in BOOLEAN, favorite_genre \in favoriteGenre(req[s].arg.id) :
       LET results == detailsQuery(req[s].arg.id, favorite_genre)
       IN  req' = [req EXCEPT ![s] =
             IF err THEN Respond(Err(@), 500, [error |-> "Failed to fetch customer details"])
             ELSE IF Cardinality(results) = 0
               THEN Respond(@, 404, [error |-> "Customer not found"])
             ELSE Respond(@, 200, CHOOSE row \in results : TRUE)]
  /\ UNCHANGED <<customer, rental, now>>

(* ------------------------- GET /api/search-films ---------------------- *)

\* The query strings and type values sent; "Title" and "year" are not among
\* the cases of the switch.
SearchQueries == {<<"a">>, <<"B">>, <<"a", "b">>, <<"a", " ", "b">>, <<"x">>, <<"_">>, <<"%">>}
SearchTypes == {"title", "actor", "genre", "Title", "year"}

\* ... FROM film f LEFT JOIN inventory i LEFT JOIN rental r WHERE f.title LIKE ?
titleSearch_rows(param) ==
  UNION {UNION {
    {[film_id |-> f, match_id |-> NULL, inventory_id |-> i, rental_id |-> r] :
        r \in OrNull(IF i = NULL THEN {} ELSE RentalsOfInventory(i))}
      : i \in OrNull(InventoryOfFilm(f))}
      : f \in {x \in film : Like(title[x], param)}}

\* ... FROM film f JOIN film_actor fa JOIN actor a LEFT JOIN inventory i
\* LEFT JOIN rental r WHERE CONCAT(a.first_name, ' ', a.last_name) LIKE ?
actorSearch_rows(param) ==
  UNION {UNION {UNION {
    {[film_id |-> f, match_id |-> a, inventory_id |-> i, rental_id |-> r] :
        r \in OrNull(IF i = NULL THEN {} ELSE RentalsOfInventory(i))}
      : i \in OrNull(InventoryOfFilm(f))}
      : a \in {x \in actor : /\ <<f, x>> \in film_actor
                             /\ Like(Concat(actor_first_name[x], actor_last_name[x]), param)}}
      : f \in film}

\* ... FROM film f JOIN film_category fc JOIN category c LEFT JOIN inventory i
\* LEFT JOIN rental r WHERE c.name LIKE ?
genreSearch_rows(param) ==
  UNION {UNION {UNION {
    {[film_id |-> f, match_id |-> c, inventory_id |-> i, rental_id |-> r] :
        r \in OrNull(IF i = NULL THEN {} ELSE RentalsOfInventory(i))}
      : i \in OrNull(InventoryOfFilm(f))}
      : c \in {x \in category : <<f, x>> \in film_category /\ Like(category_name[x], param)}}
      : f \in film}

\* SELECT DISTINCT f.film_id, ..., COUNT(r.rental_id) as rental_count ...
\* GROUP BY f.film_id, ...: one row per film, counting its joined rows that
\* have a rental.
searchGroups(rows) ==
  {[film_id |-> f, title |-> title[f], rental_rate |-> rental_rate[f],
    rental_count |-> Cardinality({x \in rows : x.film_id = f /\ x.rental_id # NULL})]
   : f \in {row.film_id : row \in rows}}

RECURSIVE OrderByTitle(_)
\* ORDER BY f.title: the orders MySQL may return the rows in (equal titles in
\* any order).
OrderByTitle(groups) ==
  IF groups = {} THEN {<<>>}
  ELSE UNION {{<<x>> \o q : q \in OrderByTitle(groups \ {x})}
              : x \in {y \in groups : \A z \in groups : TextLeq(y.title, z.title)}}

\* The switch with the statements of case 'actor' and case 'genre' exchanged.
searchQuery_exchanged(shape, param) ==
  OrderByTitle(searchGroups(
    CASE shape = "title" -> titleSearch_rows(param)
      [] shape = "actor" -> genreSearch_rows(param)
      [] shape = "genre" -> actorSearch_rows(param)))

\* db.query(searchQuery, searchParams, ...): searchQuery is one of the three
\* statements of the switch.
searchQuery(shape, param) ==
  OrderByTitle(searchGroups(
    CASE shape = "title" -> titleSearch_rows(param)
      [] shape = "actor" -> actorSearch_rows(param)
      [] shape = "genre" -> genreSearch_rows(param)))

\* The handler with "!query && !type" for "!query || !type".
SearchFilms_bothMissing(s) ==
  \E query \in SearchQueries \cup {Empty}, type \in SearchTypes \cup {Missing} :
    LET arg == [NoArg EXCEPT !.query = query, !.type = type]
    IN  IF query = Empty /\ type = Missing
        THEN Accept(s, Respond([Idle EXCEPT !.kind = "searchFilms", !.arg = arg], 400,
                  [error |-> "Query and type parameters are required"]))
        ELSE IF type \in {"title", "actor", "genre"}
        THEN Accept(s, [Issued("searchFilms", arg, "searchQuery") EXCEPT
                          !.tmp = [searchQuery |-> type, searchParams |-> SearchParam(query)]])
        ELSE Accept(s, Respond([Idle EXCEPT !.kind = "searchFilms", !.arg = arg], 400,
                  [error |-> "Invalid search type. Use: title, actor, or genre"]))

SearchFilms(s) ==
  \E query \in SearchQueries \cup {Empty}, type \in SearchTypes \cup {Missing} :
    LET arg == [NoArg EXCEPT !.query = query, !.type = type]
    IN  IF query = Empty \/ type = Missing
        THEN Accept(s, Respond([Idle EXCEPT !.kind = "searchFilms", !.arg = arg], 400,
                  [error |-> "Query and type parameters are required"]))
        ELSE IF type \in {"title", "actor", "genre"}
        THEN Accept(s, [Issued("searchFilms", arg, "searchQuery") EXCEPT
                          !.tmp = [searchQuery |-> type, searchParams |-> SearchParam(query)]])
        ELSE Accept(s, Respond([Idle EXCEPT !.kind = "searchFilms", !.arg = arg], 400,
                  [error |-> "Invalid search type. Use: title, actor, or genre"]))

SearchFilms_searchQuery(s) ==
  /\ At(s, "searchFilms", "searchQuery")
  /\ \E err \in BOOLEAN :
       IF err
       THEN req' = [req EXCEPT ![s] = Respond(Err(@), 500, [error |-> "Failed to search films"])]
       ELSE \E results \in searchQuery(req[s].tmp.searchQuery, req[s].tmp.searchParams) :
              req' = [req EXCEPT ![s] = Respond(@, 200, [rows |-> results])]
  /\ UNCHANGED <<customer, rental, now>>

(* ----------------------- GET /api/top-rented-films -------------------- *)

\* ... FROM film f JOIN inventory inv JOIN rental r GROUP BY f.film_id, ...
\* ORDER BY rental_count DESC LIMIT 5
topRentedQuery ==
  LET rows == UNION {UNION {
        {[film_id |-> f, inventory_id |-> inv, rental_id |-> r] : r \in RentalsOfInventory(inv)}
          : inv \in InventoryOfFilm(f)}
          : f \in film}
  IN  OrderByCountDesc(
        {[film_id |-> f, title |-> title[f], rental_rate |-> rental_rate[f],
          rental_count |-> Cardinality({x \in rows : x.film_id = f /\ x.rental_id # NULL})]
         : f \in {row.film_id : row \in rows}}, TopLimit)

GetTopRentedFilms(s) ==
  Accept(s, Issued("topRentedFilms", NoArg, "query"))

GetTopRentedFilms_query(s) ==
  /\ At(s, "topRentedFilms", "query")
  /\ \E err \in BOOLEAN :
       IF err
       THEN req' = [req EXCEPT ![s] =
              Respond(Err(@), 500, [error |-> "Failed to fetch top rented films"])]
       ELSE \E results \in topRentedQuery :
              req' = [req EXCEPT ![s] = Respond(@, 200, [rows |-> results])]
  /\ UNCHANGED <<customer, rental, now>>

(* -------------------------- GET /api/top-actors ----------------------- *)

\* ... FROM actor a JOIN film_actor filmactor GROUP BY a.actor_id, ...
\* ORDER BY film_count DESC LIMIT 5
topActorsQuery ==
  LET rows == UNION {{[actor_id |-> a, film_id |-> f] : f \in {x \in film : <<x, a>> \in film_actor}}
                     : a \in actor}
      groups == {[actor_id |-> a, first_name |-> actor_first_name[a],
                  last_name |-> actor_last_name[a],
                  film_count |-> Cardinality({x \in rows : x.actor_id = a /\ x.film_id # NULL})]
                 : a \in {row.actor_id : row \in rows}}
  IN  {Limit(q, TopLimit) : q \in OrderDesc(groups, [g \in groups |-> g.film_count])}

GetTopActors(s) ==
  Accept(s, Issued("topActors", NoArg, "query"))

GetTopActors_query(s) ==
  /\ At(s, "topActors", "query")
  /\ \E err \in BOOLEAN :
       IF err
       THEN req' = [req EXCEPT ![s] = Respond(Err(@), 500, [error |-> "Failed to fetch top actors"])]
       ELSE \E results \in topActorsQuery :
              req' = [req EXCEPT ![s] = Respond(@, 200, [rows |-> results])]
  /\ UNCHANGED <<customer, rental, now>>

(* ------------------------ GET /api/customers-simple ------------------- *)

\* x sorts no later than y under ORDER BY last_name, first_name.
NameLeq(x, y) ==
  /\ TextLeq(x.last_name, y.last_name)
  /\ TextLeq(y.last_name, x.last_name) => TextLeq(x.first_name, y.first_name)

RECURSIVE OrderByName(_)
\* ORDER BY last_name, first_name: the orders MySQL may return the rows in.
OrderByName(rows) ==
  IF rows = {} THEN {<<>>}
  ELSE UNION {{<<x>> \o q : q \in OrderByName(rows \ {x})}
              : x \in {y \in rows : \A z \in rows : NameLeq(y, z)}}

\* A customer row as the customer queries select it.
CustomerRow(c) ==
  [customer_id |-> c, first_name |-> customer[c].first_name,
   last_name |-> customer[c].last_name, email |-> customer[c].email,
   active |-> customer[c].active]

\* SELECT ... FROM customer WHERE active = 1 ORDER BY last_name, first_name
customersSimpleQuery ==
  OrderByName({CustomerRow(c) : c \in {x \in Ids(customer) : customer[x].active = 1}})

GetCustomersSimple(s) ==
  Accept(s, Issued("customersSimple", NoArg, "query"))

GetCustomersSimple_query(s) ==
  /\ At(s, "customersSimple", "query")
  /\ \E err \in BOOLEAN :
       IF err
       THEN req' = [req EXCEPT ![s] = Respond(Err(@), 500, [error |-> "Failed to fetch customers"])]
       ELSE \E results \in customersSimpleQuery :
              req' = [req EXCEPT ![s] = Respond(@, 200, [rows |-> results])]
  /\ UNCHANGED <<customer, rental, now>>

(* --------------------------- GET /api/customers ----------------------- *)

\* The page, limit, search and type parameters sent.
PageInputs == {Empty, <<"2">>, <<"-", "1">>, <<"x">>}
LimitInputs == {Empty, <<"1">>, <<"0">>, <<"-", "1">>}
SearchInputs == {Empty, <<" ">>, <<"a">>, <<" ", "1", " ">>}
TypeInputs == {Missing, "id", "first_name", "last_name", "year"}

\* The defaults of "parseInt(req.query.page) || 1" and
\* "parseInt(req.query.limit) || 10".
DefaultPage == 1
DefaultLimit == 10

DigitValue(c) ==
  CASE c = "0" -> 0 [] c = "1" -> 1 [] c = "2" -> 2 [] OTHER -> -1

RECURSIVE LeadingDigits(_, _)
\* The value of the decimal digits a text starts with, after acc.
LeadingDigits(text, acc) ==
  IF text = <<>> \/ DigitValue(Head(text)) < 0 THEN acc
  ELSE LeadingDigits(Tail(text), 10 * acc + DigitValue(Head(text)))

RECURSIVE TrimStart(_)
TrimStart(text) ==
  IF text # <<>> /\ Head(text) = " " THEN TrimStart(Tail(text)) ELSE text

RECURSIVE TrimEnd(_)
TrimEnd(text) ==
  IF text # <<>> /\ text[Len(text)] = " "
  THEN TrimEnd(SubSeq(text, 1, Len(text) - 1)) ELSE text

\* String.prototype.trim
Trim(text) == TrimEnd(TrimStart(text))

NaN == [nan |-> TRUE, value |-> 0]

\* parseInt: leading blanks are skipped, then an optional sign and the
\* decimal digits up to the first other character; NaN when there is no digit.
ParseInt(text) ==
  LET t == TrimStart(text)
      negative == t # <<>> /\ Head(t) = "-"
      digits == IF negative THEN Tail(t) ELSE t
  IN  IF digits = <<>> \/ DigitValue(Head(digits)) < 0 THEN NaN
      ELSE [nan |-> FALSE,
            value |-> IF negative THEN 0 - LeadingDigits(digits, 0)
                      ELSE LeadingDigits(digits, 0)]

\* parsed || default: NaN and 0 are falsy.
OrDefault(parsed, default) ==
  IF parsed.nan \/ parsed.value = 0 THEN default ELSE parsed.value

\* searchCondition with searchParams: the customers the WHERE clause keeps.
searchCondition(search, type) ==
  LET param == SearchParam(Trim(search))
  IN  {c \in Ids(customer) :
         /\ customer[c].active = 1
         /\ Trim(search) # Empty =>
              CASE type = "id" -> c = ParseInt(Trim(search)).value
                [] type = "first_name" -> Like(customer[c].first_name, param)
                [] type = "last_name" -> Like(customer[c].last_name, param)
                [] OTHER -> \/ Like(customer[c].first_name, param)
                            \/ Like(customer[c].last_name, param)}

\* countQuery: SELECT COUNT(*) as total FROM customer ${searchCondition}
countQuery(search, type) == Cardinality(searchCondition(search, type))

\* MySQL rejects the statement when a numeric parameter is written into it as
\* NaN (type 'id' with a search that parseInt cannot read).
countQuery_rejected(search, type) ==
  Trim(search) # Empty /\ type = "id" /\ ParseInt(Trim(search)).nan

\* Math.ceil(total / limit)
Ceil(total, limit) ==
  IF limit > 0 THEN (total + limit - 1) \div limit ELSE 0 - (total \div (0 - limit))

\* customersQuery: ... ${searchCondition} ORDER BY last_name, first_name
\* LIMIT ? OFFSET ?
customersQuery(search, type, limit, offset) ==
  {SubSeq(q, IF offset + 1 > Len(q) + 1 THEN Len(q) + 1 ELSE offset + 1,
             IF offset + limit > Len(q) THEN Len(q) ELSE offset + limit)
   : q \in OrderByName({CustomerRow(c) : c \in searchCondition(search, type)})}

\* MySQL rejects a negative LIMIT or OFFSET.
customersQuery_rejected(limit, offset) == limit < 0 \/ offset < 0

GetCustomers(s) ==
  \E page \in PageInputs, limit \in LimitInputs, search \in SearchInputs,
     type \in TypeInputs :
    Accept(s, Issued("customers",
                     [NoArg EXCEPT !.page = page, !.limit = limit, !.search = search,
                                   !.type = type], "countQuery"))

GetCustomers_countQuery(s) ==
  /\ At(s, "customers", "countQuery")
  /\ LET limit == OrDefault(ParseInt(req[s].arg.limit), DefaultLimit)
         search == req[s].arg.search
         type == IF req[s].arg.type = Missing THEN "name" ELSE req[s].arg.type
     IN  \E err \in IF countQuery_rejected(search, type) THEN {TRUE} ELSE BOOLEAN :
           LET total == countQuery(search, type)
           IN  req' = [req EXCEPT ![s] =
                 IF err THEN Respond(Err(@), 500, [error |-> "Failed to get customer count"])
                 ELSE Query([@ EXCEPT !.tmp = [total |-> total,
                                               totalPages |-> Ceil(total, limit)]],
                            "customersQuery")]
  /\ UNCHANGED <<customer, rental, now>>

GetCustomers_customersQuery(s) ==
  /\ At(s, "customers", "customersQuery")
  /\ LET page == OrDefault(ParseInt(req[s].arg.page), DefaultPage)
         limit == OrDefault(ParseInt(req[s].arg.limit), DefaultLimit)
         offset == (page - 1) * limit
         search == req[s].arg.search
         type == IF req[s].arg.type = Missing THEN "name" ELSE req[s].arg.type
     IN  \E err \in IF customersQuery_rejected(limit, offset) THEN {TRUE} ELSE BOOLEAN :
           IF err
           THEN req' = [req EXCEPT ![s] =
                  Respond(Err(@), 500, [error |-> "Failed to get customers"])]
           ELSE \E result \in customersQuery(search, type, limit, offset) :
                  req' = [req EXCEPT ![s] =
                    Respond(@, 200,
                      [customers |-> result,
                       pagination |->
                         [currentPage |-> page, totalPages |-> req[s].tmp.totalPages,
                          totalCustomers |-> req[s].tmp.total, limit |-> limit,
                          hasNext |-> page < req[s].tmp.totalPages,
                          hasPrev |-> page > 1]])]
  /\ UNCHANGED <<customer, rental, now>>

(* ----------------------- GET /api/film/:id/inventory ------------------ *)

\* x sorts no later than y under ORDER BY i.store_id, i.inventory_id.
StoreLeq(x, y) ==
  \/ x.store_id < y.store_id
  \/ x.store_id = y.store_id /\ x.inventory_id <= y.inventory_id

RECURSIVE OrderByStore(_)
OrderByStore(rows) ==
  IF rows = {} THEN {<<>>}
  ELSE UNION {{<<x>> \o q : q \in OrderByStore(rows \ {x})}
              : x \in {y \in rows : \A z \in rows : StoreLeq(y, z)}}

\* The listing with the rental joined on the item alone, without "AND
\* r.return_date IS NULL": one row for every rental the copy ever had.
inventoryQuery_anyRental(filmId) ==
  OrderByStore(UNION {UNION {
    {[inventory_id |-> i, store_id |-> st, rental_id |-> r,
      status |-> IF r # NULL /\ rental[r].return_date = NULL
                 THEN "Rented" ELSE "Available"] :
        r \in OrNull(RentalsOfInventory(i))}
      : st \in {x \in store : store_id[i] = x}}
      : i \in {x \in Ids(inventory) : inventory[x] = filmId}})

\* ... FROM inventory i JOIN store s LEFT JOIN rental r ON i.inventory_id =
\* r.inventory_id AND r.return_date IS NULL WHERE i.film_id = ?
inventoryQuery(filmId) ==
  OrderByStore(UNION {UNION {
    {[inventory_id |-> i, store_id |-> st, rental_id |-> r,
      status |-> IF r # NULL /\ rental[r].return_date = NULL
                 THEN "Rented" ELSE "Available"] :
        r \in OrNull(RentalsOfInventory(i) \cap OpenRentals)}
      : st \in {x \in store : store_id[i] = x}}
      : i \in {x \in Ids(inventory) : inventory[x] = filmId}})

GetFilmInventory(s) ==
  \E filmId \in film \cup {Cardinality(film) + 1} :
    Accept(s, Issued("filmInventory", [NoArg EXCEPT !.id = filmId], "query"))

GetFilmInventory_query(s) ==
  /\ At(s, "filmInventory", "query")
  /\ \E err \in BOOLEAN :
       IF err
       THEN req' = [req EXCEPT ![s] =
              Respond(Err(@), 500, [error |-> "Failed to fetch film inventory"])]
       ELSE \E results \in inventoryQuery(req[s].arg.id) :
              req' = [req EXCEPT ![s] = Respond(@, 200, [rows |-> results])]
  /\ UNCHANGED <<customer, rental, now>>

(* ---------------------- GET /api/customers/:id/rentals ---------------- *)

RECURSIVE AnyOrder(_)
\* The sequences that list each row of a set once.
AnyOrder(rows) ==
  IF rows = {} THEN {<<>>}
  ELSE UNION {{<<x>> \o q : q \in AnyOrder(rows \ {x})} : x \in rows}

\* ... FROM rental r JOIN inventory i JOIN film f WHERE r.customer_id = ?
\* ORDER BY r.rental_date DESC.  The rental rows here carry no rental_date, so
\* the rows come in any order.
rentalsQuery(customerId) ==
  AnyOrder(UNION {UNION {
    {[rental_id |-> r, film_title |-> title[f], return_date |-> rental[r].return_date,
      rental_rate |-> rental_rate[f],
      status |-> IF rental[r].return_date = NULL THEN "Active" ELSE "Returned"] :
        f \in {x \in film : inventory[i] = x}}
      : i \in {x \in Ids(inventory) : rental[r].inventory_id = x}}
      : r \in {x \in Ids(rental) : rental[x].customer_id = customerId}})

GetCustomerRentals(s) ==
  \E customerId \in 1 .. Len(customer) + 1 :
    Accept(s, Issued("customerRentals", [NoArg EXCEPT !.id = customerId], "query"))

GetCustomerRentals_query(s) ==
  /\ At(s, "customerRentals", "query")
  /\ \E err \in BOOLEAN :
       IF err
       THEN req' = [req EXCEPT ![s] =
              Respond(Err(@), 500, [error |-> "Failed to fetch customer rentals"])]
       ELSE \E results \in rentalsQuery(req[s].arg.id) :
              req' = [req EXCEPT ![s] = Respond(@, 200, [rows |-> results])]
  /\ UNCHANGED <<customer, rental, now>>

(* --------------------------- specification ---------------------------- *)

AtMostOneOpenPerInventory(rt) ==
  \A i \in Ids(inventory) :
    Cardinality({r \in Ids(rt) : rt[r].inventory_id = i /\ rt[r].return_date = NULL}) <= 1

InitCustomers ==
  {<<[first_name |-> <<"a", "b">>, last_name |-> <<"b">>, email |-> "a@x", active |-> 1],
     [first_name |-> <<"B">>, last_name |-> <<"a">>, email |-> e, active |-> a]>> :
     e \in Emails, a \in {0, 1}}

RentalRows(cs) ==
  [inventory_id : Requested, customer_id : Ids(cs), return_date : {NULL, 1}]

Init ==
  /\ customer \in {cs \in InitCustomers :
        \A c, d \in Ids(cs) :
          c # d /\ cs[c].active = 1 /\ cs[d].active = 1 => cs[c].email # cs[d].email}
  /\ rental \in {rt \in UNION {[1 .. n -> RentalRows(customer)] : n \in {0, 1}} :
        /\ AtMostOneOpenPerInventory(rt)
        /\ \A r \in Ids(rt) :
             rt[r].return_date = NULL => customer[rt[r].customer_id].active = 1}
  /\ now = 1
  /\ req = [s \in Slots |-> Idle]

\* The synchronous part of each handler: validation and the first db.query.
Arrival(s) ==
  \/ PostRentals(s) \/ PutReturn(s)
  \/ PostCustomers(s) \/ PutCustomers(s) \/ DeleteCustomers(s)
  \/ GetFilm(s) \/ GetActor(s) \/ GetCustomerDetails(s)

\* The db.query callbacks.
Callback(s) ==
  \/ PostRentals_checkQuery(s) \/ PostRentals_rentalQuery(s)
  \/ PutReturn_checkQuery(s) \/ PutReturn_updateQuery(s)
  \/ PostCustomers_checkEmailQuery(s) \/ PostCustomers_insertQuery(s)
  \/ PutCustomers_checkCustomerQuery(s) \/ PutCustomers_checkEmailQuery(s)
  \/ PutCustomers_updateQuery(s)
  \/ DeleteCustomers_checkCustomerQuery(s) \/ DeleteCustomers_checkRentalsQuery(s)
  \/ DeleteCustomers_deleteQuery(s)
  \/ GetFilm_query(s)
  \/ GetActor_actorQuery(s) \/ GetActor_topFilmsQuery(s)
  \/ GetCustomerDetails_query(s)

\* Requests one at a time: each runs to completion before the next starts,
\* so only the first slot is ever taken.
Next == Arrival(1) \/ Callback(1)

Spec == Init /\ [][Next]_vars

\* The handlers that write, and their callbacks.
WriterArrival(s) ==
  \/ PostRentals(s) \/ PutReturn(s)
  \/ PostCustomers(s) \/ PutCustomers(s) \/ DeleteCustomers(s)

WriterCallback(s) ==
  \/ PostRentals_checkQuery(s) \/ PostRentals_rentalQuery(s)
  \/ PutReturn_checkQuery(s) \/ PutReturn_updateQuery(s)
  \/ PostCustomers_checkEmailQuery(s) \/ PostCustomers_insertQuery(s)
  \/ PutCustomers_checkCustomerQuery(s) \/ PutCustomers_checkEmailQuery(s)
  \/ PutCustomers_updateQuery(s)
  \/ DeleteCustomers_checkCustomerQuery(s) \/ DeleteCustomers_checkRentalsQuery(s)
  \/ DeleteCustomers_deleteQuery(s)

\* Requests whose queries interleave on the shared connection: one writing
\* request per slot, each callback of either running at any time (the
\* read-only handlers write nothing the writers read).
ConcNext ==
  \E s \in Slots :
    \/ req[s].pc = "idle" /\ (\A t \in Slots : t < s => req[t].pc # "idle")
       /\ WriterArrival(s)
    \/ WriterCallback(s)

ConcSpec == Init /\ [][ConcNext]_vars

\* The read-only handlers, one request at a time, against any customer and
\* rental tables of up to MaxInitRentals rentals.
QueryInit ==
  /\ customer \in InitCustomers
  /\ rental \in UNION {[1 .. n -> RentalRows(customer)] : n \in 0 .. MaxInitRentals}
  /\ now = 1
  /\ req = [s \in Slots |-> Idle]

QueryNext ==
  \/ GetFilm(1) \/ GetFilm_query(1)
  \/ GetActor(1) \/ GetActor_actorQuery(1) \/ GetActor_topFilmsQuery(1)
  \/ GetCustomerDetails(1) \/ GetCustomerDetails_query(1)

QuerySpec == QueryInit /\ [][QueryNext]_vars

\* The list and report handlers.
ListArrival(s) ==
  \/ GetTopRentedFilms(s) \/ GetTopActors(s) \/ SearchFilms(s)
  \/ GetCustomersSimple(s) \/ GetCustomers(s)

ListCallback(s) ==
  \/ GetTopRentedFilms_query(s) \/ GetTopActors_query(s) \/ SearchFilms_searchQuery(s)
  \/ GetCustomersSimple_query(s)
  \/ GetCustomers_countQuery(s) \/ GetCustomers_customersQuery(s)

\* One request of a list or report handler: these handlers write nothing, so
\* a later request finds the tables as the first one did.
ListNext == (req[1].pc = "idle" /\ ListArrival(1)) \/ ListCallback(1)

ListSpec == Init /\ [][ListNext]_vars

\* One request of any handler of the server, run to its response.
AllNext ==
  \/ req[1].pc = "idle"
     /\ (Arrival(1) \/ ListArrival(1) \/ GetFilmInventory(1) \/ GetCustomerRentals(1))
  \/ Callback(1) \/ ListCallback(1)
  \/ GetFilmInventory_query(1) \/ GetCustomerRentals_query(1)

AllSpec == Init /\ [][AllNext]_vars

\* The film search against any customer and rental tables of up to
\* MaxInitRentals rentals.
SearchNext == (req[1].pc = "idle" /\ SearchFilms(1)) \/ SearchFilms_searchQuery(1)

SearchSpec == QueryInit /\ [][SearchNext]_vars

RECURSIVE RentalsOfCounts(_, _)
\* A rental table with count[i] returned rentals of each inventory item i up
\* to item n.
RentalsOfCounts(count, n) ==
  IF n = 0 THEN <<>>
  ELSE RentalsOfCounts(count, n - 1)
       \o [k \in 1 .. count[n] |-> [inventory_id |-> n, customer_id |-> 1, return_date |-> 1]]

\* The top-rented-films report against rental tables in which every inventory
\* item has been rented up to MaxRentalsPerItem times.
TopInit ==
  /\ customer \in {cs \in InitCustomers : cs[2].active = 1 /\ cs[2].email = "b@x"}
  /\ rental \in {RentalsOfCounts(count, Len(inventory)) :
                   count \in [Ids(inventory) -> 0 .. MaxRentalsPerItem]}
  /\ now = 1
  /\ req = [s \in Slots |-> Idle]

TopNext == (req[1].pc = "idle" /\ GetTopRentedFilms(1)) \/ GetTopRentedFilms_query(1)

TopSpec == TopInit /\ [][TopNext]_vars

\* Renting, returning and listing the copies of a film, one request at a
\* time: a request arrives only when the previous one has been answered.
RentArrival(s) == PostRentals(s) \/ PutReturn(s) \/ GetFilmInventory(s)

RentCallback(s) ==
  \/ PostRentals_checkQuery(s) \/ PostRentals_rentalQuery(s)
  \/ PutReturn_checkQuery(s) \/ PutReturn_updateQuery(s)
  \/ GetFilmInventory_query(s)

RentNext == RentArrival(1) \/ RentCallback(1)

RentSpec == Init /\ [][RentNext]_vars

(* ------------------------------ properties ---------------------------- *)

HasOpenRental(inventory_id) ==
  \E r \in Ids(rental) :
    rental[r].inventory_id = inventory_id /\ rental[r].return_date = NULL

OpenRentalsOfCustomer(customerId) ==
  {r \in Ids(rental) : rental[r].customer_id = customerId /\ rental[r].return_date = NULL}

\* The step runs the callback of the query request s waits for, and the
\* query returned no database error (a database error is the only 500).
Ran(s, kind, pc) == At(s, kind, pc) /\ req'[s] # req[s] /\ req'[s].status # 500

Answered(s, kind, status) ==
  req[s].kind = kind /\ req[s].pc = "done" /\ req[s].status = status

\* C1: when the availability check of a POST /api/rentals runs (without a
\* database error) for an inventory item that has a rental with return_date
\* NULL, the request ends there with 400 'Inventory item is not available for
\* rental', has issued no write, and the rental table is unchanged.
C1_OpenItemRejected ==
  [][\A s \in Slots :
       (Ran(s, "createRental", "checkQuery") /\ HasOpenRental(req[s].arg.inventory_id))
       => /\ req'[s].pc = "done"
          /\ req'[s].status = 400
          /\ req'[s].out = [error |-> "Inventory item is not available for rental"]
          /\ req'[s].writes = 0
          /\ rental' = rental]_vars

C1_Witness ==
  \E s \in Slots :
    /\ Answered(s, "createRental", 400)
    /\ req[s].out = [error |-> "Inventory item is not available for rental"]
    /\ HasOpenRental(req[s].arg.inventory_id)

\* C2: DELETE /api/customers/:id for an active customer, absent a database
\* error: the existence check passes; with at least one open rental the
\* rentals check ends the request with 400 and the customer table is unchanged
\* (active stays 1); with none the UPDATE runs, the response is 200, and the
\* customer's row is kept with active = 0 and nothing else changed.
C2_SoftDelete ==
  [][\A s \in Slots :
       LET id == req[s].arg.id
       IN  /\ (Ran(s, "deleteCustomer", "checkCustomerQuery")
               /\ id \in Ids(customer) /\ customer[id].active = 1)
              => (req'[s].pc = "checkRentalsQuery" /\ customer' = customer)
           /\ Ran(s, "deleteCustomer", "checkRentalsQuery")
              => /\ customer[id].active = 1
                 /\ customer' = customer
                 /\ IF OpenRentalsOfCustomer(id) # {}
                    THEN /\ req'[s].pc = "done" /\ req'[s].status = 400
                         /\ req'[s].writes = 0
                    ELSE req'[s].pc = "deleteQuery"
           /\ Ran(s, "deleteCustomer", "deleteQuery")
              => /\ customer[id].active = 1
                 /\ OpenRentalsOfCustomer(id) = {}
                 /\ req'[s].pc = "done" /\ req'[s].status = 200
                 /\ customer' = [customer EXCEPT ![id].active = 0]]_vars

C2_Witness ==
  \E s \in Slots :
    /\ Answered(s, "deleteCustomer", 400)
    /\ OpenRentalsOfCustomer(req[s].arg.id) # {}
    /\ customer[req[s].arg.id].active = 1

\* C3: when the check of PUT /api/rentals/:rentalId/return runs (without a
\* database error): for a rental id that does not exist the response is 404;
\* for a rental whose return_date is set the response is 400 'Rental has
\* already been returned', no UPDATE is issued and the rental table, so the
\* rental's return_date, is unchanged.
C3_AlreadyReturnedRejected ==
  [][\A s \in Slots :
       Ran(s, "returnRental", "checkQuery")
       => IF req[s].arg.id \notin Ids(rental)
          THEN req'[s].pc = "done" /\ req'[s].status = 404 /\ rental' = rental
          ELSE rental[req[s].arg.id].return_date # NULL
               => /\ req'[s].pc = "done"
                  /\ req'[s].status = 400
                  /\ req'[s].out = [error |-> "Rental has already been returned"]
                  /\ req'[s].writes = 0
                  /\ rental' = rental]_vars

C3_Witness ==
  \E s \in Slots :
    /\ Answered(s, "returnRental", 400)
    /\ req[s].out = [error |-> "Rental has already been returned"]
    /\ rental[req[s].arg.id].return_date # NULL
    /\ rental[req[s].arg.id].return_date < now

\* C4: when the email check of a POST /api/customers (with first_name,
\* last_name and email) runs without a database error and an active customer
\* holds that email, the request ends with 400 'Email already exists', has
\* issued no write, and the customer table is unchanged.
C4_DuplicateEmailRejected ==
  [][\A s \in Slots :
       (/\ Ran(s, "createCustomer", "checkEmailQuery")
        /\ \E c \in Ids(customer) :
             customer[c].active = 1 /\ customer[c].email = req[s].arg.email)
       => /\ req'[s].pc = "done"
          /\ req'[s].status = 400
          /\ req'[s].out = [error |-> "Email already exists"]
          /\ req'[s].writes = 0
          /\ customer' = customer]_vars

C4_Witness ==
  \E s \in Slots :
    /\ Answered(s, "createCustomer", 400)
    /\ req[s].out = [error |-> "Email already exists"]
    /\ req[s].arg.first_name # Empty /\ req[s].arg.last_name # Empty
    /\ \E c \in Ids(customer) :
         customer[c].active = 1 /\ customer[c].email = req[s].arg.email

\* C5: with requests run one at a time from a rental table in which every
\* inventory item has at most one rental with return_date NULL, every
\* inventory item has at most one rental with return_date NULL in every state.
C5_OneOpenRentalPerItem ==
  \A i \in Ids(inventory) :
    Cardinality({r \in Ids(rental) :
                   rental[r].inventory_id = i /\ rental[r].return_date = NULL}) <= 1

\* An item rented again after its earlier rental was returned.
C5_Witness ==
  \E s \in Slots :
    /\ Answered(s, "createRental", 200)
    /\ HasOpenRental(req[s].arg.inventory_id)
    /\ \E r \in Ids(rental) :
         /\ rental[r].inventory_id = req[s].arg.inventory_id
         /\ rental[r].return_date # NULL

\* C6: with the queries of two POST /api/rentals requests interleaved,
\* nothing after the availability check looks at the rental table again: a
\* check that finds the item available (no database error) always goes on to
\* the INSERT, and an INSERT that returns no database error always appends an
\* open rental and responds 200, also when another request has rented the
\* item in between.  Two requests that both pass the check therefore both
\* insert (the witness: one inventory item with two rentals whose return_date
\* is NULL, both requests answered 200).
C6_CheckThenInsertNotAtomic ==
  [][\A s \in Slots :
       /\ (/\ Ran(s, "createRental", "checkQuery")
           /\ req[s].arg.inventory_id \in Ids(inventory)
           /\ ~HasOpenRental(req[s].arg.inventory_id))
          => req'[s].pc = "rentalQuery"
       /\ Ran(s, "createRental", "rentalQuery")
          => /\ req'[s].pc = "done"
             /\ req'[s].status = 200
             /\ rental' = Append(rental, [inventory_id |-> req[s].arg.inventory_id,
                                          customer_id |-> req[s].arg.customer_id,
                                          return_date |-> NULL])]_vars

C6_Witness ==
  \E s, t \in Slots :
    /\ s # t
    /\ Answered(s, "createRental", 200)
    /\ Answered(t, "createRental", 200)
    /\ req[s].arg.inventory_id = req[t].arg.inventory_id
    /\ Cardinality({r \in Ids(rental) :
                      /\ rental[r].inventory_id = req[s].arg.inventory_id
                      /\ rental[r].return_date = NULL}) >= 2

\* C7: with requests run one at a time from a customer table in which no two
\* active customers share an email, no two customers with active = 1 have the
\* same email in any state.
C7_ActiveEmailsUnique ==
  \A c, d \in Ids(customer) :
    (c # d /\ customer[c].active = 1 /\ customer[d].active = 1)
    => customer[c].email # customer[d].email

\* A customer was given an email by PUT while another customer is active.
C7_Witness ==
  \E s \in Slots :
    /\ Answered(s, "updateCustomer", 200)
    /\ customer[req[s].arg.id].active = 1
    /\ customer[req[s].arg.id].email = req[s].arg.email
    /\ \E d \in Ids(customer) : d # req[s].arg.id /\ customer[d].active = 1

RentalsOfFilm(f) ==
  {r \in Ids(rental) :
     rental[r].inventory_id \in Ids(inventory) /\ inventory[rental[r].inventory_id] = f}

\* C8: a 200 response of GET /api/film/:id carries rental_count = the number
\* of rental rows whose inventory item belongs to the film, total_copies =
\* the number of inventory rows of the film, and currently_rented = the number
\* of those rentals with return_date NULL, for every film and every number of
\* categories, actors, copies and rentals joined to it.
C8_FilmCounts ==
  \A s \in Slots :
    Answered(s, "film", 200)
    => /\ req[s].out.rental_count = Cardinality(RentalsOfFilm(req[s].arg.id))
       /\ req[s].out.total_copies =
            Cardinality({i \in Ids(inventory) : inventory[i] = req[s].arg.id})
       /\ req[s].out.currently_rented =
            Cardinality({r \in RentalsOfFilm(req[s].arg.id) : rental[r].return_date = NULL})

\* Film 1 (two categories, two actors, two copies) with two rentals, one open.
C8_Witness ==
  \E s \in Slots :
    /\ Answered(s, "film", 200)
    /\ Cardinality({c \in category : <<req[s].arg.id, c>> \in film_category}) >= 2
    /\ Cardinality({a \in actor : <<req[s].arg.id, a>> \in film_actor}) >= 2
    /\ req[s].out.total_copies >= 2
    /\ req[s].out.rental_count >= 2
    /\ req[s].out.currently_rented = 1

\* C9: absent a database error, GET /api/film/:id responds 404 exactly when
\* no film row has the id and otherwise 200 with the one row of that film;
\* GET /api/customers/:id/details responds 404 exactly when no customer row
\* has the id and otherwise 200 with the one row of that customer, whatever
\* the film's copies, actors and categories and the customer's rentals and
\* active flag.
C9_FoundOrNotFound ==
  \A s \in Slots :
    (req[s].pc = "done" /\ req[s].status # 500)
    => /\ req[s].kind = "film"
          => IF req[s].arg.id \in film
             THEN /\ req[s].status = 200
                  /\ req[s].out.film_id = req[s].arg.id
                  /\ Cardinality(filmQuery(req[s].arg.id)) = 1
             ELSE req[s].status = 404
       /\ req[s].kind = "customerDetails"
          => IF req[s].arg.id \in Ids(customer)
             THEN /\ req[s].status = 200
                  /\ req[s].out.customer_id = req[s].arg.id
                  /\ \A g \in favoriteGenre(req[s].arg.id) :
                       Cardinality(detailsQuery(req[s].arg.id, g)) = 1
             ELSE req[s].status = 404

\* A soft-deleted customer without rentals is found.
C9_Witness ==
  \E s \in Slots :
    /\ Answered(s, "customerDetails", 200)
    /\ customer[req[s].arg.id].active = 0
    /\ req[s].out.total_rentals = 0
    /\ \A r \in Ids(rental) : rental[r].customer_id # req[s].arg.id

\* C10: absent a database error, GET /api/actor/:id responds 404 exactly when
\* no actor row has the id, and 200 for every actor of the actor table, also
\* one without films or whose films have no inventory copy.
C10_ActorFound ==
  \A s \in Slots :
    (req[s].kind = "actor" /\ req[s].pc = "done" /\ req[s].status # 500)
    => (req[s].status = 404 <=> req[s].arg.id \notin actor)

(* The mutation handlers and, for each, the queries of its chain in the
   order the callbacks issue them: the precondition reads, then the write. *)
Writers ==
  {"createRental", "returnRental", "createCustomer", "updateCustomer", "deleteCustomer"}

Chain(kind) ==
  CASE kind = "createRental" -> <<"checkQuery", "rentalQuery">>
    [] kind = "returnRental" -> <<"checkQuery", "updateQuery">>
    [] kind = "createCustomer" -> <<"checkEmailQuery", "insertQuery">>
    [] kind = "updateCustomer" -> <<"checkCustomerQuery", "checkEmailQuery", "updateQuery">>
    [] kind = "deleteCustomer" -> <<"checkCustomerQuery", "checkRentalsQuery", "deleteQuery">>

\* The precondition that the read request s waits for checks holds of the
\* tables as they are now.
PassesRead(s) ==
  LET a == req[s].arg
      at == <<req[s].kind, req[s].pc>>
  IN  CASE at = <<"createRental", "checkQuery">> ->
             a.inventory_id \in Ids(inventory) /\ ~HasOpenRental(a.inventory_id)
        [] at = <<"returnRental", "checkQuery">> ->
             a.id \in Ids(rental) /\ rental[a.id].return_date = NULL
        [] at = <<"createCustomer", "checkEmailQuery">> ->
             \A c \in Ids(customer) : customer[c].email # a.email
        [] at = <<"updateCustomer", "checkCustomerQuery">> -> a.id \in Ids(customer)
        [] at = <<"updateCustomer", "checkEmailQuery">> ->
             \A c \in Ids(customer) \ {a.id} : customer[c].email # a.email
        [] at = <<"deleteCustomer", "checkCustomerQuery">> ->
             a.id \in Ids(customer) /\ customer[a.id].active = 1
        [] at = <<"deleteCustomer", "checkRentalsQuery">> ->
             OpenRentalsOfCustomer(a.id) = {}
        [] OTHER -> FALSE

\* C11: in each mutation handler, also with the queries of two requests
\* interleaved: the query a request waits for is the one its chain has at the
\* number of queries it has issued, so the write comes after all its reads;
\* a callback of a read goes on to the next query only when the read returned
\* no database error and its precondition holds, and otherwise ends the
\* request, which has issued no write; the tables change only in the callback
\* of a write; and a request that responds 200 does so from the callback of
\* its write, having issued each read of its chain and exactly one write.
C11_WriteAfterPassingReads ==
  [][\A s \in Slots :
       (req[s].kind \in Writers /\ req[s].pc \notin {"idle", "done"} /\ req'[s] # req[s])
       => LET chain == Chain(req[s].kind)
              reads == Len(chain) - 1
          IN  /\ req[s].queries \in 1 .. Len(chain)
              /\ req[s].pc = chain[req[s].queries]
              /\ req[s].writes = 0
              /\ req[s].queries <= reads
                 => /\ <<customer', rental'>> = <<customer, rental>>
                    /\ req'[s].writes = 0
                    /\ IF req'[s].errors = 0 /\ PassesRead(s)
                       THEN /\ req'[s].pc = chain[req[s].queries + 1]
                            /\ req'[s].queries = req[s].queries + 1
                       ELSE /\ req'[s].pc = "done"
                            /\ req'[s].status \in {400, 404, 500}
                            /\ req'[s].queries = req[s].queries
              /\ req[s].queries = reads + 1
                 => /\ req'[s].pc = "done"
                    /\ req'[s].queries = reads + 1
                    /\ req'[s].status \in {200, 500}
                    /\ req'[s].status = 200 <=> req'[s].writes = 1
                    /\ req'[s].status = 500 <=> req'[s].writes = 0]_vars

\* A PUT /api/customers/:id answered 200 after its two reads and one write,
\* while the other request is between its read and its write.
C11_Witness ==
  \E s, t \in Slots :
    /\ Answered(s, "updateCustomer", 200)
    /\ req[s].queries = 3 /\ req[s].writes = 1
    /\ req[t].kind \in Writers /\ req[t].pc = Chain(req[t].kind)[Len(Chain(req[t].kind))]

\* C12: in every handler, when the callback of a query is called with a
\* database error, the request ends there: it responds 500 with a body that
\* holds just an error message, the number of queries it has issued stays as
\* it was (the failed query is not issued again and no later query of the
\* chain is issued), it has written nothing and the tables are unchanged; and
\* no callback runs for a request that has had a database error.
C12_ErrorEnds500 ==
  [][\A s \in Slots :
       (req[s].pc \notin {"idle", "done"} /\ req'[s] # req[s])
       => /\ req[s].errors = 0
          /\ req'[s].errors \in {0, 1}
          /\ req'[s].errors = 1
             => /\ req'[s].pc = "done"
                /\ req'[s].status = 500
                /\ DOMAIN req'[s].out = {"error"}
                /\ req'[s].responses = 1
                /\ req'[s].queries = req[s].queries
                /\ req'[s].writes = 0
                /\ <<customer', rental'>> = <<customer, rental>>]_vars

\* A POST /api/rentals for an available item whose availability check failed:
\* answered 500 after that one query, the INSERT never sent.
C12_Witness ==
  \E s \in Slots :
    /\ Answered(s, "createRental", 500)
    /\ req[s].errors = 1 /\ req[s].queries = 1 /\ req[s].writes = 0
    /\ req[s].arg.inventory_id \in Ids(inventory)
    /\ ~HasOpenRental(req[s].arg.inventory_id)

ListKinds == {"topRentedFilms", "topActors", "searchFilms", "customersSimple", "customers"}

\* The text starts with a minus sign: parseInt reads a negative number.
Negative(text) == text # <<>> /\ Head(text) = "-"

\* The text, trimmed, is not empty and holds no digit.
NotANumber(text) ==
  /\ \E k \in DOMAIN text : text[k] # " "
  /\ \A k \in DOMAIN text : text[k] \notin {"0", "1", "2"}

MatchingFilms(type, query) ==
  CASE type = "title" -> {f \in film : Like(title[f], SearchParam(query))}
    [] type = "actor" ->
         {f \in film : \E a \in actor :
            /\ <<f, a>> \in film_actor
            /\ Like(actor_first_name[a] \o <<" ">> \o actor_last_name[a], SearchParam(query))}
    [] type = "genre" ->
         {f \in film : \E c \in category :
            <<f, c>> \in film_category /\ Like(category_name[c], SearchParam(query))}

FilmsOf(rows) == {rows[k].film_id : k \in DOMAIN rows}

\* C14: a GET /api/search-films with a non-empty query and a non-empty type:
\* for type 'title', 'actor' or 'genre' it issues the one query of that type
\* with the parameter %query%, and the 200 response lists the films matched
\* on title, on an actor's 'first last' name, or on a category's name
\* respectively; for any other type it has responded 400 'Invalid search
\* type. Use: title, actor, or genre' having issued no query.
C14_SearchDispatch ==
  \A s \in Slots :
    (req[s].kind = "searchFilms" /\ req[s].arg.query # Empty /\ req[s].arg.type # Missing)
    => LET a == req[s].arg
       IN  IF a.type \in {"title", "actor", "genre"}
           THEN /\ req[s].queries = 1
                /\ req[s].tmp = [searchQuery |-> a.type, searchParams |-> SearchParam(a.query)]
                /\ req[s].pc \in {"searchQuery", "done"}
                /\ (req[s].pc = "done" /\ req[s].errors = 0)
                   => /\ req[s].status = 200
                      /\ FilmsOf(req[s].out.rows) = MatchingFilms(a.type, a.query)
           ELSE /\ req[s].pc = "done"
                /\ req[s].status = 400
                /\ req[s].out = [error |-> "Invalid search type. Use: title, actor, or genre"]
                /\ req[s].queries = 0

\* Type 'Title' is not a case of the switch: 400, no query.  The three types
\* differ: 'a b' matches an actor's name but no title and no category.
C14_Witness ==
  \E s \in Slots :
    /\ Answered(s, "searchFilms", 400)
    /\ req[s].arg.type = "Title" /\ req[s].arg.query = <<"a">>
    /\ req[s].queries = 0
    /\ MatchingFilms("actor", <<"a", " ", "b">>) # {}
    /\ MatchingFilms("title", <<"a", " ", "b">>) = {}
    /\ MatchingFilms("genre", <<"a", " ", "b">>) = {}

\* text contains q as a substring, letter case aside.
Contains(text, q) ==
  \E k \in 0 .. Len(text) - Len(q) : SubSeq(Fold(text), k + 1, k + Len(q)) = Fold(q)

\* C15: a 200 response of GET /api/search-films with type=genre lists exactly
\* the films joined through film_category to at least one category whose name
\* contains the query as a substring, letter case aside, each once.
C15_GenreSubstring ==
  \A s \in Slots :
    (Answered(s, "searchFilms", 200) /\ req[s].arg.type = "genre")
    => /\ FilmsOf(req[s].out.rows) =
            {f \in film : \E c \in category :
               <<f, c>> \in film_category /\ Contains(category_name[c], req[s].arg.query)}
       /\ Len(req[s].out.rows) = Cardinality(FilmsOf(req[s].out.rows))

\* C20: in a 200 response of GET /api/search-films, of any of the three
\* types, every film's rental_count is the number of rental rows whose
\* inventory item belongs to the film, also when the query matches several
\* actors or several categories of the film.
C20_SearchCounts ==
  \A s \in Slots :
    Answered(s, "searchFilms", 200)
    => \A k \in DOMAIN req[s].out.rows :
         req[s].out.rows[k].rental_count =
           Cardinality(RentalsOfFilm(req[s].out.rows[k].film_id))

\* A required field of the request's body is absent or falsy.
MissingInput(r) ==
  \/ r.kind = "createRental"
     /\ (r.arg.customer_id = 0 \/ r.arg.inventory_id = 0 \/ r.arg.staff_id = 0)
  \/ r.kind \in {"createCustomer", "updateCustomer"}
     /\ (r.arg.first_name = Empty \/ r.arg.last_name = Empty \/ r.arg.email = Missing)

\* C16: a POST /api/rentals without (or with a falsy) customer_id,
\* inventory_id or staff_id, and a POST /api/customers or PUT
\* /api/customers/:id without first_name, last_name or email, is answered 400
\* in the step it arrives in, having issued no query, with the tables
\* unchanged; the PUT also when no customer has the id.
C16_ValidationFirst ==
  [][\A s \in Slots :
       (req'[s] # req[s] /\ MissingInput(req'[s]))
       => /\ req'[s].pc = "done"
          /\ req'[s].status = 400
          /\ req'[s].out =
               [error |-> IF req'[s].kind = "createRental"
                          THEN "customer_id, inventory_id, and staff_id are required"
                          ELSE "First name, last name, and email are required"]
          /\ req'[s].queries = 0
          /\ req'[s].writes = 0
          /\ <<customer', rental'>> = <<customer, rental>>]_vars

\* A PUT without email for an id no customer has: 400, not 404.
C16_Witness ==
  \E s \in Slots :
    /\ Answered(s, "updateCustomer", 400)
    /\ req[s].arg.id \notin Ids(customer)
    /\ req[s].arg.email = Missing /\ req[s].arg.first_name # Empty
    /\ req[s].queries = 0

\* C17: in every state, no customer with active = 0 holds a rental with
\* return_date NULL.
C17_NoInactiveOpenRental ==
  \A r \in Ids(rental) :
    rental[r].return_date = NULL => customer[rental[r].customer_id].active = 1

\* C18: two PUT /api/rentals/:rentalId/return requests for the same rental,
\* their queries interleaved, neither meeting a database error, are never
\* both answered 200 (each having written the rental's return_date).
C18_OneReturnWins ==
  \A s, t \in Slots :
    (/\ s # t
     /\ req[s].kind = "returnRental" /\ req[t].kind = "returnRental"
     /\ req[s].arg.id = req[t].arg.id
     /\ req[s].pc = "done" /\ req[t].pc = "done")
    => ~(req[s].status = 200 /\ req[t].status = 200)

RentedFilms == {f \in film : RentalsOfFilm(f) # {}}

\* C19: a 200 response of GET /api/top-rented-films lists at most 5 films,
\* no film twice, each with rental_count = the number of rental rows of the
\* film's inventory, which is at least 1, in non-increasing order of
\* rental_count; no film left out has more rentals than a film listed; and
\* when fewer than 5 films have a rental, all of them are listed.
C19_TopRentedFilms ==
  \A s \in Slots :
    Answered(s, "topRentedFilms", 200)
    => LET rows == req[s].out.rows
       IN  /\ Len(rows) <= 5
           /\ Len(rows) = Cardinality(FilmsOf(rows))
           /\ \A k \in DOMAIN rows :
                /\ rows[k].rental_count = Cardinality(RentalsOfFilm(rows[k].film_id))
                /\ rows[k].rental_count >= 1
           /\ \A j, k \in DOMAIN rows : j < k => rows[j].rental_count >= rows[k].rental_count
           /\ \A f \in RentedFilms \ FilmsOf(rows) : \A k \in DOMAIN rows :
                Cardinality(RentalsOfFilm(f)) <= rows[k].rental_count
           /\ Cardinality(RentedFilms) < 5 => FilmsOf(rows) = RentedFilms

\* Six films have rentals, in different numbers: five are listed and a film
\* with fewer rentals than the last one listed is left out.
C19_Witness ==
  \E s \in Slots :
    /\ Answered(s, "topRentedFilms", 200)
    /\ Cardinality(RentedFilms) = 6
    /\ Len(req[s].out.rows) = 5
    /\ req[s].out.rows[1].rental_count > req[s].out.rows[5].rental_count
    /\ \E f \in RentedFilms \ FilmsOf(req[s].out.rows) :
         Cardinality(RentalsOfFilm(f)) < req[s].out.rows[5].rental_count

\* C21: when the email check of a POST /api/customers runs without a
\* database error and no customer with active = 1 holds the email (it is
\* free, or held only by soft-deleted customers), the request is not rejected
\* as a duplicate: it goes on to the INSERT.
C21_InactiveEmailFree ==
  [][\A s \in Slots :
       (/\ Ran(s, "createCustomer", "checkEmailQuery")
        /\ \A c \in Ids(customer) :
             customer[c].email = req[s].arg.email => customer[c].active = 0)
       => req'[s].pc = "insertQuery"]_vars

\* The rows of an inventory listing that are about the given item.
RowsOfItem(rows, i) == {k \in 1 .. Len(rows) : rows[k].inventory_id = i}

\* C22: with requests run one at a time and no database error,
\* (a) the UPDATE of a PUT /api/rentals/:rentalId/return answers 200 and,
\*     when the rental was the only open one of its item, leaves the item
\*     without an open rental;
\* (b) GET /api/film/:id/inventory answers 200 and lists every copy of the
\*     film exactly once, 'Rented' when it has an open rental and 'Available'
\*     when it has none;
\* (c) the availability check of a POST /api/rentals for an existing item
\*     answers 400 when the item has an open rental and goes on to the INSERT
\*     when it has none, and the INSERT answers 200 and leaves the item with
\*     an open rental;
\* (d) an item that has an open rental keeps it until the UPDATE of a return
\*     of one of its rentals, and an item without one stays so until the
\*     INSERT of a POST /api/rentals for it.
C22_ReturnThenRentAgain ==
  [][/\ \A s \in Slots :
          /\ Ran(s, "returnRental", "updateQuery") =>
               /\ req'[s].pc = "done" /\ req'[s].status = 200
               /\ rental'[req[s].arg.id].return_date # NULL
               /\ LET i == rental[req[s].arg.id].inventory_id
                  IN  RentalsOfInventory(i) \cap OpenRentals = {req[s].arg.id} =>
                        \A r \in Ids(rental') :
                          rental'[r].inventory_id = i => rental'[r].return_date # NULL
          /\ Ran(s, "filmInventory", "query") =>
               /\ req'[s].pc = "done" /\ req'[s].status = 200
               /\ \A k \in 1 .. Len(req'[s].out.rows) :
                    inventory[req'[s].out.rows[k].inventory_id] = req[s].arg.id
               /\ \A i \in InventoryOfFilm(req[s].arg.id) :
                    /\ Cardinality(RowsOfItem(req'[s].out.rows, i)) = 1
                    /\ \A k \in RowsOfItem(req'[s].out.rows, i) :
                         req'[s].out.rows[k].status =
                           IF HasOpenRental(i) THEN "Rented" ELSE "Available"
          /\ Ran(s, "createRental", "checkQuery")
               /\ req[s].arg.inventory_id \in Ids(inventory) =>
               IF HasOpenRental(req[s].arg.inventory_id)
               THEN req'[s].pc = "done" /\ req'[s].status = 400
               ELSE req'[s].pc = "rentalQuery"
          /\ Ran(s, "createRental", "rentalQuery") =>
               /\ req'[s].pc = "done" /\ req'[s].status = 200
               /\ rental'[Len(rental')].inventory_id = req[s].arg.inventory_id
               /\ rental'[Len(rental')].return_date = NULL
     /\ \A i \in Ids(inventory) :
          LET open  == RentalsOfInventory(i) \cap OpenRentals
              open2 == {r \in Ids(rental') : rental'[r].inventory_id = i
                                             /\ rental'[r].return_date = NULL}
          IN  /\ open # {} /\ open2 = {} =>
                   \E s \in Slots : /\ Ran(s, "returnRental", "updateQuery")
                                    /\ req[s].arg.id \in open
              /\ open = {} /\ open2 # {} =>
                   \E s \in Slots : /\ Ran(s, "createRental", "rentalQuery")
                                    /\ req[s].arg.inventory_id = i
              /\ Cardinality(open2) <= 1]_vars

\* A copy was returned by a request (its return date is later than any of the
\* initial data) and the listing that followed reports it 'Available'.
C22_Witness ==
  \E s \in Slots :
    /\ Answered(s, "filmInventory", 200)
    /\ \E k \in 1 .. Len(req[s].out.rows) :
         /\ req[s].out.rows[k].status = "Available"
         /\ \E r \in Ids(rental) :
              /\ rental[r].inventory_id = req[s].out.rows[k].inventory_id
              /\ rental[r].return_date > 1

\* The value a page or limit parameter stands for: the default when it is
\* absent, not a number or 0, and the number it spells otherwise.
PageOrLimit(text, default) ==
  IF text = Empty \/ NotANumber(text) \/ text = <<"0">> THEN default
  ELSE ParseInt(text).value

\* C23: whatever page and limit are sent, once the count of a GET
\* /api/customers has been read the request can be answered 200 (it is, unless
\* the database fails), and a 200 answer carries the page and limit with
\* their fallbacks to 1 and 10, totalCustomers = the number of active
\* customers matching the search, totalPages = ceil(totalCustomers / limit),
\* hasPrev exactly when page > 1, hasNext exactly when page * limit <
\* totalCustomers, and at most limit customers, all with active = 1.
C23_Pagination ==
  \A s \in Slots :
    LET page == PageOrLimit(req[s].arg.page, DefaultPage)
        limit == PageOrLimit(req[s].arg.limit, DefaultLimit)
        type == IF req[s].arg.type = Missing THEN "name" ELSE req[s].arg.type
        total == Cardinality(searchCondition(req[s].arg.search, type))
    IN  /\ At(s, "customers", "customersQuery") =>
             ENABLED (GetCustomers_customersQuery(s) /\ req'[s].status = 200)
        /\ Answered(s, "customers", 200) =>
             /\ req[s].out.pagination.currentPage = page
             /\ req[s].out.pagination.limit = limit
             /\ req[s].out.pagination.totalCustomers = total
             /\ req[s].out.pagination.totalPages = Ceil(total, limit)
             /\ req[s].out.pagination.hasPrev = (page > 1)
             /\ req[s].out.pagination.hasNext = (page * limit < total)
             /\ Len(req[s].out.customers) <= limit
             /\ \A k \in 1 .. Len(req[s].out.customers) :
                  req[s].out.customers[k].active = 1

\* C24: whatever each query of a handler's callback chain returns (rows, no
\* row or a database error) and whatever validation decides, a request that
\* is still waiting for a query has sent no response and its callback can be
\* called, and a request whose chain has ended has sent exactly one response,
\* with status 200, 400, 404 or 500.
C24_ExactlyOneResponse ==
  \A s \in Slots :
    /\ req[s].pc = "idle" => req[s].responses = 0
    /\ req[s].pc \notin {"idle", "done"} =>
         /\ req[s].responses = 0
         /\ s = 1 => ENABLED AllNext
    /\ req[s].pc = "done" =>
         /\ req[s].responses = 1
         /\ req[s].status \in {200, 400, 404, 500}

\* The third query of a PUT /api/customers/:id failed after the two checks
\* passed, and the request was answered once.
C24_Witness ==
  \E s \in Slots :
    /\ Answered(s, "updateCustomer", 500)
    /\ req[s].queries = 3 /\ req[s].errors = 1
    /\ req[s].responses = 1

====
